---- MODULE Spec2Model ----
(***************************************************************************)
(* express-jobly: the authorization middleware (middleware/auth.js), the   *)
(* users router and the Company model's filter query builder.              *)
(*                                                                         *)
(* Two specifications share the module:                                    *)
(*   Spec         one HTTP request travelling authenticateJWT -> gate ->   *)
(*                route handler of the users router;                       *)
(*   SpecCompany  calls of Company.findAll and Company._filterCompanies.   *)
(***************************************************************************)
EXTENDS Integers, Sequences, FiniteSets, TLC

VARIABLES
    pc,         \* position of the request in the middleware chain
    req,        \* the request: route, authorization header, params, body validity
    user,       \* res.locals.user
    verify,     \* what authenticateJWT handed to jwt.verify
    trace,      \* the calls made while serving the request, in order
    error,      \* the error the request ended with ("none" when none)
    cpc,        \* Company: which operation ran last
    filter,     \* Company: the filter object of the last call (insertion-ordered entries)
    built,      \* Company: the last result of _filterCompanies
    dbQueries,  \* Company: the queries the last findAll sent to db.query
    cerror      \* Company: the error the last findAll threw ("none" when none)

vars == <<pc, req, user, verify, trace, error, cpc, filter, built, dbQueries, cerror>>
httpVars == <<pc, req, user, verify, trace, error>>
companyVars == <<cpc, filter, built, dbQueries, cerror>>

----------------------------------------------------------------------------
(* Bounds of the model *)

\* longest run of whitespace put around the token in an Authorization header
MaxPad == 1
\* largest employee count used as a filter value
MaxEmp == 2
\* largest number of keys of a filter object
MaxKeys == 3

----------------------------------------------------------------------------
(* JavaScript values: a type tag, a string payload and a number payload *)

Undef == [ty |-> "undefined", s |-> "", n |-> 0]
Bool(b) == [ty |-> "boolean", s |-> IF b THEN "true" ELSE "false", n |-> 0]
Str(x) == [ty |-> "string", s |-> x, n |-> 0]
Num(k) == [ty |-> "number", s |-> "", n |-> k]

\* ToBoolean
Truthy(v) ==
    CASE v.ty = "undefined" -> FALSE
      [] v.ty = "boolean" -> v.s = "true"
      [] v.ty = "string" -> v.s # ""
      [] v.ty = "number" -> v.n # 0

\* a === b
StrictEq(a, b) == a.ty = b.ty /\ a.s = b.s /\ a.n = b.n

\* a > b on numbers and undefined (undefined converts to NaN, every comparison
\* with NaN is false)
GreaterThan(a, b) ==
    IF a.ty = "number" /\ b.ty = "number" THEN a.n > b.n ELSE FALSE

----------------------------------------------------------------------------
(* Tokens, headers and identities *)

NoTok == [sig |-> "none", exp |-> "none", username |-> Undef, isAdmin |-> Undef]

\* an element of a header string: one character, or a whole encoded token
Ch(c) == [ch |-> c, tok |-> NoTok]
TokEl(t) == [ch |-> "", tok |-> t]

Chars(s) == [i \in 1..Len(s) |-> Ch(s[i])]

\* res.locals.user: absent, or the payload object of a token
NoUser == [present |-> FALSE, username |-> Undef, isAdmin |-> Undef]
Payload(t) == [present |-> TRUE, username |-> t.username, isAdmin |-> t.isAdmin]

\* curUser?.field
Opt(u, field) == IF u.present THEN u[field] ELSE Undef

Usernames == {"u1", "u2"}
PayloadUsernames == {Undef, Str("")} \cup {Str(u) : u \in Usernames}
PayloadIsAdmin == {Undef, Bool(TRUE), Bool(FALSE), Str("true"), Num(1)}

GoodTokens ==
    {[sig |-> "good", exp |-> "live", username |-> u, isAdmin |-> a] :
        u \in PayloadUsernames, a \in PayloadIsAdmin}
BadTokens ==
    {[sig |-> "bad", exp |-> "live", username |-> Str("u1"), isAdmin |-> Bool(TRUE)],
     [sig |-> "good", exp |-> "expired", username |-> Str("u1"), isAdmin |-> Bool(TRUE)]}
Tokens == GoodTokens \cup BadTokens

Pad(k) == [i \in 1..k |-> Ch(" ")]

Prefixes ==
    {<<>>,
     Chars(<<"B", "e", "a", "r", "e", "r", " ">>),
     Chars(<<"b", "e", "a", "r", "e", "r", " ">>),
     Chars(<<"B", "E", "A", "R", "E", "R", " ">>),
     Chars(<<"b", "E", "a", "R", "e", "R", " ">>),
     Chars(<<"B", "a", "s", "i", "c", " ">>)}

\* req.headers.authorization: absent, the empty string, or a string
NoHeader == [present |-> FALSE, chars |-> <<>>]
Headers ==
    {NoHeader, [present |-> TRUE, chars |-> <<>>]} \cup
    {[present |-> TRUE, chars |-> p \o Pad(a) \o <<TokEl(t)>> \o Pad(b)] :
        p \in Prefixes, a \in 0..MaxPad, b \in 0..MaxPad, t \in Tokens}

----------------------------------------------------------------------------
(* middleware/auth.js *)

\* the regular expression /^[Bb]earer /, one set of characters per position
BearerRegex == <<{"B", "b"}, {"e"}, {"a"}, {"r"}, {"e"}, {"r"}, {" "}>>

MatchesAtStart(s, re) ==
    /\ Len(s) >= Len(re)
    /\ \A i \in 1..Len(re) : s[i].ch \in re[i]

\* s.replace(re, "") with re anchored at the start
ReplacePrefix(s, re) ==
    IF MatchesAtStart(s, re) THEN SubSeq(s, Len(re) + 1, Len(s)) ELSE s

IsSpace(e) == e.ch = " "

RECURSIVE TrimStart(_)
TrimStart(s) ==
    IF s # <<>> /\ IsSpace(s[1]) THEN TrimStart(Tail(s)) ELSE s

RECURSIVE TrimEnd(_)
TrimEnd(s) ==
    IF s # <<>> /\ IsSpace(s[Len(s)]) THEN TrimEnd(SubSeq(s, 1, Len(s) - 1)) ELSE s

\* s.trim()
Trim(s) == TrimEnd(TrimStart(s))

\* authHeader.replace(/^[Bb]earer /, "").trim()
ExtractToken(chars) == Trim(ReplacePrefix(chars, BearerRegex))

\* jwt.verify(token, SECRET_KEY): the payload of a token that is exactly one
\* encoded token, signed with the secret and not expired; throws otherwise
JwtVerifies(token) ==
    /\ Len(token) = 1
    /\ token[1].tok.sig = "good"
    /\ token[1].tok.exp = "live"

\* jwt.decode(token): the payload of anything that is one encoded token
JwtDecodes(token) == Len(token) = 1 /\ token[1].tok.sig # "none"

\* if (authHeader)
HeaderTruthy(h) == h.present /\ h.chars # <<>>

\* authenticateJWT, with the signature left unchecked
AuthenticateJWT_Decode(h) ==
    IF HeaderTruthy(h)
    THEN LET token == ExtractToken(h.chars) IN
         [user |-> IF JwtDecodes(token) THEN Payload(token[1].tok) ELSE NoUser,
          called |-> TRUE, token |-> token, raised |-> FALSE]
    ELSE [user |-> NoUser, called |-> FALSE, token |-> <<>>, raised |-> FALSE]

\* the effect of authenticateJWT on res.locals.user, the token it hands to
\* jwt.verify, and whether an exception escapes it
AuthenticateJWT(h) ==
    IF HeaderTruthy(h)
    THEN LET token == ExtractToken(h.chars) IN
         [user |-> IF JwtVerifies(token) THEN Payload(token[1].tok) ELSE NoUser,
          called |-> TRUE, token |-> token, raised |-> FALSE]
    ELSE [user |-> NoUser, called |-> FALSE, token |-> <<>>, raised |-> FALSE]

\* ensureIsAdmin with the flag coerced to a boolean
EnsureIsAdminAdmits_Truthy(u) ==
    Truthy(Opt(u, "isAdmin")) /\ Truthy(Opt(u, "username"))

\* res.locals.user?.isAdmin === true && res.locals.user?.username
EnsureIsAdminAdmits(u) ==
    StrictEq(Opt(u, "isAdmin"), Bool(TRUE)) /\ Truthy(Opt(u, "username"))

\* curUser?.isAdmin || curUser?.username === req.params.username
EnsureIsAdminOrUserAdmits(u, paramUsername) ==
    Truthy(Opt(u, "isAdmin")) \/ StrictEq(Opt(u, "username"), paramUsername)

----------------------------------------------------------------------------
(* routes/users.js *)

Routes ==
    {"POST /", "GET /", "GET /:username", "PATCH /:username",
     "DELETE /:username", "POST /:username/jobs/:jobId"}

\* the users router with every route behind ensureIsAdminOrUser
RouteGate_AllSelf(route) == "ensureIsAdminOrUser"

\* the gate each route is registered with
RouteGate(route) ==
    IF route \in {"POST /", "GET /"} THEN "ensureIsAdmin" ELSE "ensureIsAdminOrUser"

\* the store operation of each route's handler
RouteStoreOp(route) ==
    CASE route = "POST /" -> "User.register"
      [] route = "GET /" -> "User.findAll"
      [] route = "GET /:username" -> "User.get"
      [] route = "PATCH /:username" -> "User.update"
      [] route = "DELETE /:username" -> "User.remove"
      [] route = "POST /:username/jobs/:jobId" -> "User.applyToJob"

StoreOps == {RouteStoreOp(r) : r \in Routes}

\* the routes whose handler validates req.body against a JSON schema first
RouteValidates(route) == route \in {"POST /", "PATCH /:username"}

\* req.params.username
ParamUsernames(route) ==
    IF route \in {"POST /", "GET /"} THEN {Undef} ELSE {Str(u) : u \in Usernames}

NoVerify == [called |-> FALSE, token |-> <<>>]
NoRequest == [route |-> "GET /", header |-> NoHeader, username |-> Undef, bodyValid |-> TRUE]

InitHttp ==
    /\ pc = "idle"
    /\ req = NoRequest
    /\ user = NoUser
    /\ verify = NoVerify
    /\ trace = <<>>
    /\ error = "none"

\* the application receives a request: res.locals is fresh, and the request
\* enters authenticateJWT before the users router
Receive ==
    /\ pc = "idle"
    /\ \E r \in Routes, h \in Headers, v \in BOOLEAN :
        \E p \in ParamUsernames(r) :
            /\ v = FALSE => RouteValidates(r)
            /\ req' = [route |-> r, header |-> h, username |-> p, bodyValid |-> v]
    /\ pc' = "authenticateJWT"
    /\ user' = NoUser
    /\ verify' = NoVerify
    /\ trace' = <<>>
    /\ error' = "none"
    /\ UNCHANGED companyVars

\* the response is sent and the request's context is discarded
Respond ==
    /\ pc = "done"
    /\ pc' = "idle"
    /\ req' = NoRequest
    /\ user' = NoUser
    /\ verify' = NoVerify
    /\ trace' = <<>>
    /\ error' = "none"
    /\ UNCHANGED companyVars

AuthenticateJWTStep ==
    /\ pc = "authenticateJWT"
    /\ LET r == AuthenticateJWT(req.header) IN
        /\ user' = r.user
        /\ verify' = [called |-> r.called, token |-> r.token]
        /\ IF r.raised
           THEN /\ trace' = Append(trace, "authenticateJWT:throw")
                /\ error' = "JsonWebTokenError"
                /\ pc' = "done"
           ELSE /\ trace' = Append(trace, "authenticateJWT:next")
                /\ error' = error
                /\ pc' = "gate"
    /\ UNCHANGED <<req, companyVars>>

\* a gate: return next() when it admits, throw new UnauthorizedError() otherwise
Gate(name, admits, admitted, rejected) ==
    /\ pc = "gate"
    /\ RouteGate(req.route) = name
    /\ IF admits
       THEN /\ trace' = Append(trace, admitted)
            /\ error' = error
            /\ pc' = "handler"
       ELSE /\ trace' = Append(trace, rejected)
            /\ error' = "UnauthorizedError"
            /\ pc' = "done"
    /\ UNCHANGED <<req, user, verify, companyVars>>

EnsureIsAdmin ==
    Gate("ensureIsAdmin", EnsureIsAdminAdmits(user),
         "ensureIsAdmin:next", "ensureIsAdmin:throw")

EnsureIsAdminOrUser ==
    Gate("ensureIsAdminOrUser", EnsureIsAdminOrUserAdmits(user, req.username),
         "ensureIsAdminOrUser:next", "ensureIsAdminOrUser:throw")

\* a route handler: validate the body where the route does, then call the store
Handler(route) ==
    /\ pc = "handler"
    /\ req.route = route
    /\ IF RouteValidates(route) /\ ~req.bodyValid
       THEN /\ trace' = Append(trace, "validate:throw")
            /\ error' = "BadRequestError"
       ELSE /\ trace' = Append(trace, RouteStoreOp(route))
            /\ \E e \in {"none", "StoreError"} : error' = e
    /\ pc' = "done"
    /\ UNCHANGED <<req, user, verify, companyVars>>

PostUser == Handler("POST /")
GetUsers == Handler("GET /")
GetUser == Handler("GET /:username")
PatchUser == Handler("PATCH /:username")
DeleteUser == Handler("DELETE /:username")
ApplyToJob == Handler("POST /:username/jobs/:jobId")

NextHttp ==
    \/ Receive
    \/ Respond
    \/ AuthenticateJWTStep
    \/ EnsureIsAdmin
    \/ EnsureIsAdminOrUser
    \/ PostUser
    \/ GetUsers
    \/ GetUser
    \/ PatchUser
    \/ DeleteUser
    \/ ApplyToJob


----------------------------------------------------------------------------
(* models/company.js *)

RecognizedKeys == {"minEmployees", "maxEmployees", "nameLike"}
UnrecognizedKeys == {"description"}
FilterKeys == RecognizedKeys \cup UnrecognizedKeys

Injection == "'; DROP TABLE x; --"

\* the values a caller may put under a key
KeyValues(k) ==
    CASE k \in {"minEmployees", "maxEmployees"} -> {Num(n) : n \in 0..MaxEmp}
      [] k = "nameLike" -> {Str("net"), Str(Injection)}
      [] OTHER -> {Num(1), Str(Injection)}

Entries == UNION {{[key |-> k, val |-> v] : v \in KeyValues(k)} : k \in FilterKeys}

\* a filter object: its entries in insertion order, no key twice
FilterObjects ==
    UNION {{f \in [1..n -> Entries] :
                \A i, j \in 1..n : f[i].key = f[j].key => i = j} : n \in 0..MaxKeys}

\* Object.keys(data), Object.values(data)
Keys(data) == [i \in 1..Len(data) |-> data[i].key]
Values(data) == [i \in 1..Len(data) |-> data[i].val]

\* data[k], undefined when the object has no such key
Get(data, k) ==
    IF \E i \in 1..Len(data) : data[i].key = k
    THEN (CHOOSE e \in {data[i] : i \in 1..Len(data)} : e.key = k).val
    ELSE Undef

\* the pieces of a query text: SQL written in the source, a positional
\* placeholder $n, a caller's value written into the text, and the undefined a
\* callback returns when it falls off its end
Sql(t) == [kind |-> "sql", text |-> t, n |-> 0]
Ph(n) == [kind |-> "ph", text |-> "$", n |-> n]
Lit(v) == [kind |-> "lit", text |-> v.s, n |-> v.n]
UndefinedFragment == <<[kind |-> "undefined", text |-> "", n |-> 0]>>

\* the callback of keys.map, with idx counted from 1
Fragment(colName, idx) ==
    CASE colName = "minEmployees" -> <<Sql("num_employees >= "), Ph(idx)>>
      [] colName = "maxEmployees" -> <<Sql("num_employees <=  "), Ph(idx)>>
      [] colName = "nameLike" -> <<Sql("name ILIKE '%'||"), Ph(idx), Sql("||'%'")>>
      [] OTHER -> UndefinedFragment

\* Array.prototype.join: an undefined element is joined as the empty string
RECURSIVE Join(_, _)
Join(frags, sep) ==
    IF frags = <<>> THEN <<>>
    ELSE LET head == IF frags[1] = UndefinedFragment THEN <<>> ELSE frags[1] IN
         IF Len(frags) = 1 THEN head
         ELSE head \o sep \o Join(Tail(frags), sep)

\* the filter builder of the commented-out lines of findAll, which writes the
\* values into the text
FilterCompanies_Interpolated(data) ==
    IF Len(data) < 1
    THEN [setCols |-> <<>>, values |-> <<>>]
    ELSE LET frag(i) ==
                 CASE data[i].key = "minEmployees" ->
                          <<Sql("num_employees >= "), Lit(data[i].val)>>
                   [] data[i].key = "maxEmployees" ->
                          <<Sql("num_employees <= "), Lit(data[i].val)>>
                   [] data[i].key = "nameLike" ->
                          <<Sql("name ILIKE '%"), Lit(data[i].val), Sql("%'")>>
                   [] OTHER -> UndefinedFragment
             filters == [i \in 1..Len(data) |-> frag(i)]
         IN [setCols |-> <<Sql("WHERE ")>> \o Join(filters, <<Sql(" AND ")>>),
             values |-> Values(data)]

\* Company._filterCompanies
FilterCompanies(data) ==
    LET keys == Keys(data) IN
    IF Len(keys) < 1
    THEN [setCols |-> <<>>, values |-> <<>>]
    ELSE LET filters == [idx \in 1..Len(keys) |-> Fragment(keys[idx], idx)] IN
         [setCols |-> <<Sql("WHERE ")>> \o Join(filters, <<Sql(" AND ")>>),
          values |-> Values(data)]

\* the range check of findAll with >= for >
InvalidRange_Geq(minEmployees, maxEmployees) ==
    /\ minEmployees.ty = "number"
    /\ maxEmployees.ty = "number"
    /\ minEmployees.n >= maxEmployees.n

\* minEmployees > maxEmployees
InvalidRange(minEmployees, maxEmployees) == GreaterThan(minEmployees, maxEmployees)

\* the text findAll sends to db.query
QueryText(setCols) ==
    <<Sql("SELECT handle, name, description, num_employees, logo_url FROM companies ")>>
    \o setCols \o <<Sql(" ORDER BY name")>>

NotBuilt == [called |-> FALSE, setCols |-> <<>>, values |-> <<>>]
NoArgument == [given |-> FALSE, data |-> <<>>]
Arguments == {NoArgument} \cup {[given |-> TRUE, data |-> d] : d \in FilterObjects}

\* Company.findAll(filter = {})
FindAll ==
    LET data == IF filter.given THEN filter.data ELSE <<>> IN
        /\ cpc = "call"
        /\ cpc' = "findAll"
        /\ filter' = filter
        /\ IF InvalidRange(Get(data, "minEmployees"), Get(data, "maxEmployees"))
           THEN /\ cerror' = "BadRequestError"
                /\ built' = NotBuilt
                /\ dbQueries' = <<>>
           ELSE LET r == FilterCompanies(data) IN
                /\ cerror' = "none"
                /\ built' = [called |-> TRUE, setCols |-> r.setCols, values |-> r.values]
                /\ dbQueries' = <<[text |-> QueryText(r.setCols), params |-> r.values]>>
        /\ UNCHANGED httpVars

\* Company._filterCompanies(data), called on its own
FilterCompaniesCall ==
    LET r == FilterCompanies(filter.data) IN
        /\ cpc = "call"
        /\ filter.given
        /\ cpc' = "_filterCompanies"
        /\ filter' = filter
        /\ built' = [called |-> TRUE, setCols |-> r.setCols, values |-> r.values]
        /\ dbQueries' = <<>>
        /\ cerror' = "none"
        /\ UNCHANGED httpVars

NextCompany ==
    \/ FindAll
    \/ FilterCompaniesCall

\* no call of the Company model is under way
CompanyIdle ==
    /\ cpc = "idle"
    /\ filter = NoArgument
    /\ built = NotBuilt
    /\ dbQueries = <<>>
    /\ cerror = "none"

\* a caller is about to call the Company model with some argument
InitCompany ==
    /\ cpc = "call"
    /\ filter \in Arguments
    /\ built = NotBuilt
    /\ dbQueries = <<>>
    /\ cerror = "none"

Init == InitHttp /\ CompanyIdle

Spec == Init /\ [][NextHttp]_vars

InitCompanyCall == InitHttp /\ InitCompany

SpecCompany == InitCompanyCall /\ [][NextCompany]_vars

----------------------------------------------------------------------------
(* Properties of the middleware chain, checked under Spec *)

\* the encoded token a header carries (NoTok when it carries none)
HeaderToken(h) ==
    IF \E i \in 1..Len(h.chars) : h.chars[i].tok # NoTok
    THEN (CHOOSE e \in {h.chars[i] : i \in 1..Len(h.chars)} : e.tok # NoTok).tok
    ELSE NoTok

Happened(ev) == \E i \in 1..Len(trace) : trace[i] = ev
Count(ev) == Cardinality({i \in 1..Len(trace) : trace[i] = ev})
ReachedStore == \E i \in 1..Len(trace) : trace[i] \in StoreOps

\* C1: ensureIsAdminOrUser admits the request if and only if the identity's
\* isAdmin is exactly boolean true or its username equals req.params.username;
\* every other identity gets UnauthorizedError and next is not called.
C1_AdminOrSelfExact ==
    (Happened("ensureIsAdminOrUser:next") \/ Happened("ensureIsAdminOrUser:throw")) =>
        LET entitled ==
                /\ user.present
                /\ \/ user.isAdmin = Bool(TRUE)
                   \/ user.username = req.username
        IN /\ Happened("ensureIsAdminOrUser:next") <=> entitled
           /\ Happened("ensureIsAdminOrUser:throw") <=> ~entitled
           /\ ~entitled => error = "UnauthorizedError"

\* C2: ensureIsAdmin admits the request if and only if an identity is present,
\* its username is a non-empty string and its isAdmin is exactly boolean true;
\* every other identity gets UnauthorizedError, next is not called and the
\* request ends there.
C2_AdminExact ==
    (Happened("ensureIsAdmin:next") \/ Happened("ensureIsAdmin:throw")) =>
        LET entitled ==
                /\ user.present
                /\ user.username.ty = "string"
                /\ user.username.s # ""
                /\ user.isAdmin = Bool(TRUE)
        IN /\ Happened("ensureIsAdmin:next") <=> entitled
           /\ Happened("ensureIsAdmin:throw") <=> ~entitled
           /\ ~entitled => error = "UnauthorizedError" /\ pc = "done" /\ ~ReachedStore

\* ensureIsAdmin has rejected a named identity whose isAdmin is the string "true"
C2_Witness ==
    /\ Happened("ensureIsAdmin:throw")
    /\ user.present
    /\ user.username = Str("u1")
    /\ user.isAdmin = Str("true")
    /\ error = "UnauthorizedError"

\* C6: authenticateJWT never raises and calls next exactly once with no error;
\* res.locals.user stays unset when no header is supplied or verification
\* fails, and is set only when verification succeeds, to the verified payload.
C6_ExtractorNeverRaises ==
    pc \in {"gate", "handler", "done"} =>
        /\ trace[1] = "authenticateJWT:next"
        /\ Count("authenticateJWT:next") = 1
        /\ ~Happened("authenticateJWT:throw")
        /\ error # "JsonWebTokenError"
        /\ ~req.header.present => ~verify.called /\ user = NoUser
        /\ HeaderToken(req.header).sig = "bad" => user = NoUser
        /\ HeaderToken(req.header).exp = "expired" => user = NoUser
        /\ user # NoUser =>
            /\ verify.called
            /\ Len(verify.token) = 1
            /\ verify.token[1].tok \in GoodTokens
            /\ verify.token[1].tok = HeaderToken(req.header)
            /\ user = Payload(HeaderToken(req.header))

\* authenticateJWT has passed a request on whose token has a bad signature,
\* leaving res.locals.user unset
C6_Witness ==
    /\ pc = "gate"
    /\ trace = <<"authenticateJWT:next">>
    /\ HeaderToken(req.header).sig = "bad"
    /\ verify.called
    /\ user = NoUser

\* the regular expression /^bearer /i: the prefix in any letter-casing
BearerRegexAnyCase ==
    <<{"B", "b"}, {"E", "e"}, {"A", "a"}, {"R", "r"}, {"E", "e"}, {"R", "r"}, {" "}>>

\* the header is a validly signed token, after an optional "Bearer " prefix in
\* any letter-casing, with whitespace around the token
BearerHeaderAnyCase(h) ==
    /\ h.present
    /\ HeaderToken(h) \in GoodTokens
    /\ LET rest == TrimStart(ReplacePrefix(h.chars, BearerRegexAnyCase)) IN
           rest # <<>> /\ rest[1] = TokEl(HeaderToken(h))

\* C7: for every validly signed token T and every letter-casing of the prefix,
\* as for T with no prefix and with surrounding whitespace, the token handed to
\* verification is exactly T and the identity is the one embedded in T.
C7_BearerAnyCase ==
    (pc \in {"gate", "handler", "done"} /\ BearerHeaderAnyCase(req.header)) =>
        /\ verify.called
        /\ verify.token = <<TokEl(HeaderToken(req.header))>>
        /\ user = Payload(HeaderToken(req.header))

\* C10: the store operation of a users route happens only after authenticateJWT
\* has run and the route's gate (ensureIsAdmin for POST / and GET /,
\* ensureIsAdminOrUser for the others) has admitted the request; a request with
\* no credential or an invalid one, or whose gate threw UnauthorizedError,
\* never reaches a store operation.
C10_StoreOnlyAfterGate ==
    /\ \A i \in 1..Len(trace) :
        trace[i] \in StoreOps =>
            /\ i = Len(trace)
            /\ \E j, k \in 1..(i - 1) :
                /\ j < k
                /\ trace[j] = "authenticateJWT:next"
                /\ trace[k] = IF req.route \in {"POST /", "GET /"}
                              THEN "ensureIsAdmin:next"
                              ELSE "ensureIsAdminOrUser:next"
    /\ ~req.header.present => ~ReachedStore
    /\ HeaderToken(req.header) \notin GoodTokens => ~ReachedStore
    /\ error = "UnauthorizedError" => ~ReachedStore
    /\ Happened("ensureIsAdmin:throw") \/ Happened("ensureIsAdminOrUser:throw")
        => ~ReachedStore

\* a self-service request has passed authenticateJWT and its gate and reached
\* the store
C10_Witness ==
    /\ trace = <<"authenticateJWT:next", "ensureIsAdminOrUser:next", "User.remove">>
    /\ user.isAdmin = Bool(FALSE)
    /\ user.username = req.username

----------------------------------------------------------------------------
(* Properties of the Company filter builder, checked under SpecCompany *)

\* the filter object the last call worked on (findAll defaults it to {})
Data == IF filter.given THEN filter.data ELSE <<>>

\* a filter restricted to the recognized keys, insertion order kept
Restrict(data) == SelectSeq(data, LAMBDA e : e.key \in RecognizedKeys)

IsPlaceholder(t) == t.kind = "ph"
Placeholders(clause) == SelectSeq(clause, IsPlaceholder)
IsAnd(t) == t = Sql(" AND ")
IsWhere(t) == t = Sql("WHERE ")

\* the texts a condition fragment starts with
ConditionHeads ==
    {Sql("num_employees >= "), Sql("num_employees <=  "), Sql("name ILIKE '%'||")}

\* the SQL a clause may be made of
ClauseSql == ConditionHeads \cup {Sql("WHERE "), Sql(" AND "), Sql("||'%'")}

\* the filter objects with the key sequence of data
SameKeys(data) ==
    {f \in [1..Len(data) -> Entries] : \A i \in 1..Len(data) : f[i].key = data[i].key}

\* C3: unrecognized filter keys are ignored: clause and values are those of the
\* same filter restricted to the recognized keys; only unrecognized keys give
\* an empty clause and empty values.
C3_UnrecognizedIgnored ==
    built.called =>
        /\ built.setCols = FilterCompanies(Restrict(Data)).setCols
        /\ built.values = Values(Restrict(Data))
        /\ Restrict(Data) = <<>> => built.setCols = <<>> /\ built.values = <<>>

\* C4: the values are aligned 1:1 with the placeholders of the clause: exactly
\* Len(values) placeholders, numbered $1..$N in increasing order along the
\* filter's keys, fragments joined with AND, and the value at position k is the
\* value of the key whose fragment holds $k.
C4_ValuesAlignPlaceholders ==
    built.called =>
        LET phs == Placeholders(built.setCols) IN
        /\ Len(phs) = Len(built.values)
        /\ \A k \in 1..Len(phs) : phs[k].n = k
        /\ Len(phs) > 0 => Len(SelectSeq(built.setCols, IsAnd)) = Len(phs) - 1
        /\ \A i \in 1..(Len(built.setCols) - 1) :
            IsAnd(built.setCols[i]) =>
                /\ i > 1
                /\ ~IsWhere(built.setCols[i - 1])
                /\ built.setCols[i + 1] \in ConditionHeads
        /\ built.setCols # <<>> => ~IsAnd(built.setCols[Len(built.setCols)])
        /\ \A k \in 1..Len(phs) :
            k <= Len(Data) /\ k <= Len(built.values) /\ built.values[k] = Data[k].val

\* C5: the clause does not depend on any filter value: filters with the same
\* key sequence give the same clause, the clause is made of the source's SQL
\* and placeholders only, and the caller's values are found only in the values
\* list.
C5_ClauseIndependentOfValues ==
    built.called =>
        /\ \A other \in SameKeys(Data) :
            FilterCompanies(other).setCols = built.setCols
        /\ \A i \in 1..Len(built.setCols) :
            \/ built.setCols[i] \in ClauseSql
            \/ /\ IsPlaceholder(built.setCols[i])
               /\ built.setCols[i].n \in 1..Len(built.values)
        /\ built.values = Values(Data)

\* the builder has been given an SQL injection attempt as nameLike and has
\* bound it as a value of an ILIKE comparison
C5_Witness ==
    /\ built.called
    /\ \E i \in 1..Len(Data) :
        /\ Data[i].key = "nameLike"
        /\ Data[i].val = Str(Injection)
        /\ built.values[i] = Str(Injection)
    /\ \E i \in 1..Len(built.setCols) : built.setCols[i] = Sql("name ILIKE '%'||")

BothBounds == Get(Data, "minEmployees") # Undef /\ Get(Data, "maxEmployees") # Undef
Inverted == BothBounds /\ Get(Data, "minEmployees").n > Get(Data, "maxEmployees").n

\* C8: findAll with both bounds and minEmployees > maxEmployees fails with
\* BadRequestError before a query is built or sent; with minEmployees <=
\* maxEmployees, or at most one bound, no range error is raised and the query
\* is sent.
C8_InvertedRangeRejected ==
    cpc = "findAll" =>
        /\ Inverted => cerror = "BadRequestError" /\ ~built.called /\ dbQueries = <<>>
        /\ ~Inverted => cerror = "none" /\ built.called /\ Len(dbQueries) = 1

\* findAll has rejected a filter whose lower bound exceeds its upper bound
C8_Witness ==
    /\ cpc = "findAll"
    /\ Inverted
    /\ cerror = "BadRequestError"
    /\ dbQueries = <<>>

\* C9: for an empty filter (and findAll with no argument) the clause and the
\* values are empty and the query sent holds no WHERE and no bound parameter;
\* WHERE is in the query sent only when a condition fragment follows it.
C9_WhereOnlyWithCondition ==
    (cpc = "findAll" /\ cerror = "none") =>
        LET q == dbQueries[1] IN
        /\ Data = <<>> =>
            /\ built.setCols = <<>>
            /\ built.values = <<>>
            /\ q.params = <<>>
            /\ \A i \in 1..Len(q.text) : ~IsWhere(q.text[i])
        /\ \A i \in 1..Len(q.text) :
            IsWhere(q.text[i]) => i < Len(q.text) /\ q.text[i + 1] \in ConditionHeads

====
